---- MODULE Spec2Model ----
(***************************************************************************)
(* schema-dts generator: the ontology resolution pipeline and the type     *)
(* expression synthesis of the class graph.                                *)
(*                                                                         *)
(* Two builds of the class code live in the repository and both are        *)
(* modelled; the variable `variant` says which one a run executes:         *)
(*   "lib" : lib/toClass.ts (Class.init, EnumValue.init, ProcessClasses),  *)
(*           lib/toProperty.ts, lib/wellKnown.ts, lib/jsonld.ts, driven by *)
(*           main() of generator/run.ts;                                   *)
(*   "ts"  : ts/class.ts (Class.add, the sorting toNode, Sort), driven by  *)
(*           the same stage sequence.                                      *)
(***************************************************************************)
EXTENDS Integers, Sequences, FiniteSets, TLC

VARIABLES
  variant,          \* which build runs: "lib" or "ts"
  skipDeprecated,   \* the skipDeprecatedProperties argument of toNode (ts build)
  members,          \* the '@graph' of the loaded ontology
  items,            \* Array.from(byId.values())
  classes,          \* the ClassMap
  order,            \* the iteration order of the ClassMap
  pc,               \* the stage main is in
  idx,              \* the position of the current stage's loop
  out,              \* what has been written to stdout
  err,              \* the stage whose error aborted the run, or "none"
  log,              \* what has been written to stderr
  builtins,         \* the Builtin objects of the module-level wellKnownTypes
  run,              \* which run of the pipeline this is, in one process
  first,            \* how the first run ended and what it wrote
  subject,          \* the subject handed to toClassName
  named,            \* what toClassName returned
  sorts             \* the nodes handed to Sort and what Sort returned

vars ==
  <<variant, skipDeprecated, members, items, classes, order, pc, idx, out, err, log,
    builtins, run, first, subject, named, sorts>>

----------------------------------------------------------------------------
(* Bounds of the input families.                                           *)

\* total number of rdfs:subClassOf references over the class topics of an input
MaxRefs == 2

----------------------------------------------------------------------------
(* Generic helpers.                                                        *)

Range(s) == {s[i] : i \in DOMAIN s}

\* new Set([...]) then Array.from: first occurrences, in order
RECURSIVE Dedup(_)
Dedup(s) ==
  IF s = <<>> THEN <<>>
  ELSE LET init == Dedup(SubSeq(s, 1, Len(s) - 1))
           last == s[Len(s)]
       IN  IF last \in Range(init) THEN init ELSE Append(init, last)

\* number of occurrences of x in s
Count(s, x) == Cardinality({i \in DOMAIN s : s[i] = x})

\* all orderings of the elements of a sequence
Perms(s) ==
  {[i \in DOMAIN s |-> s[f[i]]] :
     f \in {g \in [DOMAIN s -> DOMAIN s] : \A i, j \in DOMAIN s : i # j => g[i] # g[j]}}

EmptyMap == [x \in {} |-> x]

----------------------------------------------------------------------------
(* Identifiers and their collation.                                        *)
(* An identifier stands for a full '@id' (http://schema.org/<name>); the   *)
(* human readable name of an identifier is its last segment.  "A2" is a    *)
(* second identifier (another namespace) with the human name of "A".       *)

BuiltinIds == <<"Text", "Number", "Time", "Date", "DateTime", "Boolean">>

ClassIds == {"A", "B", "C"}

MissingId == "Missing"

\* toHumanString: the last segment of the identifier
HumanName(id) == IF id = "A2" THEN "A" ELSE IF id = "Text2" THEN "Text" ELSE id

\* String.prototype.localeCompare on two strings, as the rank of each string
\* in the collation order
StrRank(str) ==
  CASE str = "A" -> 1
    [] str = "A2" -> 2
    [] str = "B" -> 3
    [] str = "Boolean" -> 4
    [] str = "C" -> 5
    [] str = "Date" -> 6
    [] str = "DateTime" -> 7
    [] str = "e1" -> 8
    [] str = "e2" -> 9
    [] str = "e3" -> 10
    [] str = "Missing" -> 11
    [] str = "Number" -> 12
    [] str = "p" -> 13
    [] str = "q" -> 14
    [] str = "Text" -> 15
    [] str = "Text2" -> 16
    [] str = "Time" -> 17
    [] OTHER -> 18

localeCompare(a, b) ==
  IF StrRank(a) < StrRank(b) THEN -1 ELSE IF StrRank(a) > StrRank(b) THEN 1 ELSE 0


----------------------------------------------------------------------------
(* lib/jsonld.ts: graph items.  A multi-valued field is a sequence (ToArray *)
(* of the JSON-LD value); an absent field is the empty sequence.  A comment *)
(* is a record [lang, value], lang = "" for a plain string.                 *)

LD_CLASS == "rdfs:Class"
LD_PROPERTY == "rdf:Property"
LD_DATATYPE == "DataType"

\* default of the --lang flag
PreferredLanguage == "en"

\* default of the --verbose flag
IsVerbose == FALSE

\* `other` holds the further keys the member carries; `graph` holds the
\* members of a nested '@graph' ("graph" \in other says the key is present)
Item(id, types, comment, subClassOf, supersededBy, domainIncludes, rangeIncludes) ==
  [id |-> id, types |-> types, comment |-> comment, label |-> <<>>,
   subClassOf |-> subClassOf, supersededBy |-> supersededBy,
   domainIncludes |-> domainIncludes, rangeIncludes |-> rangeIncludes,
   other |-> {}, graph |-> <<>>]

\* '@type' in item
HasTypes(item) == item.types # <<>>

MetaId == "meta"

IsCloseMatch(item) == "closeMatch" \in item.other /\ ~HasTypes(item)

IsSourceOnly(item) == "source" \in item.other /\ ~HasTypes(item)

IsSoftwareVersionOnly(item) == "softwareVersion" \in item.other /\ ~HasTypes(item)

IsTestComment(item) == item.id = MetaId

Plain(text) == [lang |-> "", value |-> text]

----------------------------------------------------------------------------
(* lib/wellKnown.ts                                                        *)

CommentKept(c) == (c.lang = "" \/ c.lang = PreferredLanguage) /\ c.value # ""

CommentValue(c) == c.value

\* GetComments(item, PreferredLanguage()): the usable comment strings, in order
GetComments(item) ==
  LET kept == SelectSeq(item.comment, CommentKept)
  IN  [i \in DOMAIN kept |-> CommentValue(kept[i])]

GetSubClassOf(item) == item.subClassOf

\* GetTypes throws on an item without '@type' (TypesMissing); no identifier of
\* the inputs modelled starts with file:
GetTypes(item) == item.types

TypesMissing(item) == item.types = <<>>

IsClassType(type) == type = LD_CLASS

IsPropertyType(type) == type = LD_PROPERTY

IsDataType(type) == type = LD_DATATYPE

IsWellKnownType(type) == IsClassType(type) \/ IsPropertyType(type) \/ IsDataType(type)

HasEnumType(types) == \E i \in DOMAIN types : ~IsWellKnownType(types[i])

----------------------------------------------------------------------------
(* generator/run.ts: group                                                 *)

combineString(a, b) == Dedup(a \o b)

\* a combination that keeps every reference of both sides
combineRefKeepAll(a, b) == a \o b

combineRef(a, b) == Dedup(a \o b)

LogEntry(kind, id) == [kind |-> kind, id |-> id]

\* the merge branch of group: `old` is the stored item, `member` the later one
MergeItem(old, member) ==
  LET c1 == IF member.comment # <<>> THEN [old EXCEPT !.comment = member.comment] ELSE old
      c2 == IF member.label # <<>> THEN [c1 EXCEPT !.label = member.label] ELSE c1
      c3 == IF member.domainIncludes # <<>>
            THEN [c2 EXCEPT !.domainIncludes = combineRef(c2.domainIncludes, member.domainIncludes)]
            ELSE c2
      c4 == IF member.rangeIncludes # <<>>
            THEN [c3 EXCEPT !.rangeIncludes = combineRef(c3.rangeIncludes, member.rangeIncludes)]
            ELSE c3
      c5 == IF member.subClassOf # <<>>
            THEN [c4 EXCEPT !.subClassOf = combineRef(c4.subClassOf, member.subClassOf)]
            ELSE c4
  IN  IF member.types # <<>>
      THEN [c5 EXCEPT !.types = combineString(c5.types, member.types)]
      ELSE c5

\* the diagnostics of the merge branch; the label test reads the comment the
\* merge has just stored (alreadyExists and merge are the same object)
MergeLog(old, member) ==
  LET afterComment == IF member.comment # <<>> THEN member.comment ELSE old.comment
  IN  (IF IsVerbose THEN <<LogEntry("merging", member.id)>> ELSE <<>>)
      \o (IF member.comment # <<>> /\ old.comment # <<>>
          THEN <<LogEntry("twoComments", member.id)>> ELSE <<>>)
      \o (IF member.label # <<>> /\ afterComment # <<>>
          THEN <<LogEntry("twoComments", member.id)>> ELSE <<>>)

\* filters that do not look at the type
SkipsTyped(member) == member.other # {} \/ IsTestComment(member)

\* the members group skips
Skipped(member) ==
  \/ IsSourceOnly(member) \/ IsSoftwareVersionOnly(member) \/ IsCloseMatch(member)
  \/ IsTestComment(member)

\* group(members, map): the map is kept as the sequence of its values in
\* insertion order (a Map keeps the position of a key's first insertion)
RECURSIVE group(_, _)
group(ms, acc) ==
  IF ms = <<>> THEN acc
  ELSE LET member == Head(ms)
           at == {i \in DOMAIN acc.items : acc.items[i].id = member.id}
       IN  IF "graph" \in member.other THEN group(Tail(ms), group(member.graph, acc))
           ELSE IF Skipped(member) THEN group(Tail(ms), acc)
           ELSE IF at = {}
           THEN group(Tail(ms), [acc EXCEPT !.items = Append(@, member)])
           ELSE LET i == CHOOSE k \in at : TRUE
                IN  group(Tail(ms),
                          [items |-> [acc.items EXCEPT ![i] = MergeItem(@, member)],
                           log |-> acc.log \o MergeLog(acc.items[i], member)])

\* the member objects once group has returned: the map stores the first
\* member of a subject itself and the merge branch writes to that object
\* (`merge = alreadyExists as Mutable<JsonLdGraphItem>`), so that member has
\* become the merged item.  `seen` holds the subjects already stored.
RECURSIVE Aliased(_, _, _)
Aliased(ms, seen, its) ==
  IF ms = <<>> THEN [ms |-> <<>>, seen |-> seen]
  ELSE LET member == Head(ms)
           inner == Aliased(member.graph, seen, its)
           stored == CHOOSE i \in DOMAIN its : its[i].id = member.id
           now == IF "graph" \in member.other THEN [member EXCEPT !.graph = inner.ms]
                  ELSE IF Skipped(member) \/ member.id \in seen THEN member
                  ELSE its[stored]
           seen1 == IF "graph" \in member.other THEN inner.seen
                    ELSE IF Skipped(member) THEN seen
                    ELSE seen \cup {member.id}
           rest == Aliased(Tail(ms), seen1, its)
       IN  [ms |-> <<now>> \o rest.ms, seen |-> rest.seen]

----------------------------------------------------------------------------
(* The class registry.  A ClassMap is a function from identifier to node;   *)
(* an object is identified with the key it is stored under.  `order` is the *)
(* Map's iteration order.                                                   *)

NewClass ==
  [builtin |-> FALSE, parents |-> <<>>, children |-> <<>>, props |-> <<>>,
   enums |-> <<>>, supersededBy |-> <<>>, comment |-> <<>>]

NewBuiltin == [NewClass EXCEPT !.builtin = TRUE]

\* Map.prototype.set
MapSet(cm, id, node) ==
  [m |-> [x \in DOMAIN cm.m \cup {id} |-> IF x = id THEN node ELSE cm.m[x]],
   o |-> IF id \in DOMAIN cm.m THEN cm.o ELSE Append(cm.o, id)]

\* lib/toClass.ts: wellKnownTypes, keyed by item['@id'].  The Builtin objects
\* are created once, when the module is loaded (the variable `builtins`), and
\* every ClassMap holds these same objects.
wellKnownTypes == BuiltinIds

FreshBuiltins == [b \in Range(BuiltinIds) |-> NewBuiltin]

IsClass(item) ==
  LET types == GetTypes(item)
  IN  /\ ~\E i \in DOMAIN types : IsDataType(types[i])
      /\ ~IsDataType(item.id)
      /\ \E i \in DOMAIN types : IsClassType(types[i])

RECURSIVE SeedBuiltins(_, _)
SeedBuiltins(wks, cm) ==
  IF wks = <<>> THEN cm
  ELSE SeedBuiltins(Tail(wks), MapSet(cm, Head(wks), builtins[Head(wks)]))

\* a forward declaration whose loop starts one item late
RECURSIVE DeclareRest(_, _)
DeclareRest(its, cm) ==
  IF its = <<>> THEN cm
  ELSE DeclareRest(Tail(its),
                   IF IsClass(Head(its)) THEN MapSet(cm, Head(its).id, NewClass) ELSE cm)

DeclareItemsAfterFirst(its, cm) == IF its = <<>> THEN cm ELSE DeclareRest(Tail(its), cm)

RECURSIVE DeclareItems(_, _)
DeclareItems(its, cm) ==
  IF its = <<>> THEN cm
  ELSE DeclareItems(Tail(its),
                    IF IsClass(Head(its)) THEN MapSet(cm, Head(its).id, NewClass) ELSE cm)

\* pass 1; classes.size is never 0 since the builtins are always seeded
ForwardDeclareClasses(its) ==
  DeclareItems(its, SeedBuiltins(wellKnownTypes, [m |-> EmptyMap, o |-> <<>>]))

\* this.parents.push(parentClass); parentClass.children.push(this)
AddEdge(m, child, parent) ==
  [m EXCEPT ![child].parents = Append(@, parent), ![parent].children = Append(@, child)]

\* the comment part of Class.init (lib/toClass.ts): the first comment is kept
InitComment(m, id, item) ==
  LET comments == GetComments(item)
  IN  IF Len(comments) > 0 THEN [m EXCEPT ![id].comment = <<comments[1]>>] ELSE m

InitCommentLog(id, item) ==
  LET comments == GetComments(item)
  IN  IF Len(comments) = 0 /\ IsVerbose THEN <<LogEntry("noComment", id)>>
      ELSE IF Len(comments) > 1 THEN <<LogEntry("duplicateComment", id)>>
      ELSE <<>>

\* Class.init (lib/toClass.ts): the loop over the parents returns in its
\* first iteration
ClassInit(m, id, item) ==
  LET m1 == InitComment(m, id, item)
      parents == GetSubClassOf(item)
      lg == InitCommentLog(id, item)
  IN  IF parents = <<>> THEN [ok |-> TRUE, m |-> m1, log |-> lg]
      ELSE IF parents[1] \in DOMAIN m1
           THEN [ok |-> TRUE, m |-> AddEdge(m1, id, parents[1]), log |-> lg]
           ELSE [ok |-> FALSE, m |-> m1, log |-> lg]

\* the values of a topic as the triple based build sees them
Value(p, o) == [p |-> p, o |-> o]

TsValues(item) ==
  LET cs == GetComments(item)
  IN  [i \in DOMAIN cs |-> Value("comment", cs[i])]
      \o [i \in DOMAIN item.subClassOf |-> Value("subClassOf", item.subClassOf[i])]
      \o [i \in DOMAIN item.supersededBy |-> Value("supersededBy", item.supersededBy[i])]
      \o [i \in DOMAIN item.domainIncludes |-> Value("domainIncludes", item.domainIncludes[i])]
      \o [i \in DOMAIN item.rangeIncludes |-> Value("rangeIncludes", item.rangeIncludes[i])]

\* Class.add (ts/class.ts): one value of the topic; `handled` is its result
ClassAdd(m, id, value) ==
  IF value.p = "comment"
  THEN [ok |-> TRUE, handled |-> TRUE, m |-> [m EXCEPT ![id].comment = <<value.o>>],
        log |-> IF m[id].comment # <<>> THEN <<LogEntry("duplicateComment", id)>> ELSE <<>>]
  ELSE IF value.p = "subClassOf"
  THEN IF value.o \in DOMAIN m
       THEN [ok |-> TRUE, handled |-> TRUE, m |-> AddEdge(m, id, value.o), log |-> <<>>]
       ELSE [ok |-> FALSE, handled |-> FALSE, m |-> m, log |-> <<>>]
  ELSE IF value.p = "supersededBy"
  THEN IF value.o \in DOMAIN m
       THEN [ok |-> TRUE, handled |-> TRUE,
             m |-> [m EXCEPT ![id].supersededBy = Append(@, value.o)], log |-> <<>>]
       ELSE [ok |-> FALSE, handled |-> FALSE, m |-> m, log |-> <<>>]
  ELSE [ok |-> TRUE, handled |-> FALSE, m |-> m, log |-> <<>>]

\* pass 2 of the triple based build for one topic: every value goes to add
RECURSIVE AddValues(_, _, _, _)
AddValues(m, id, values, lg) ==
  IF values = <<>> THEN [ok |-> TRUE, m |-> m, log |-> lg]
  ELSE LET r == ClassAdd(m, id, Head(values))
       IN  IF ~r.ok THEN [ok |-> FALSE, m |-> r.m, log |-> lg \o r.log]
           ELSE AddValues(r.m, id, Tail(values), lg \o r.log)

\* one iteration of BuildClasses: a class that was not forward declared is an
\* error; otherwise the class is initialised
BuildOne(v, m, item) ==
  IF item.id \notin DOMAIN m THEN [ok |-> FALSE, m |-> m, log |-> <<>>]
  ELSE IF v = "lib" THEN ClassInit(m, item.id, item)
  ELSE AddValues(m, item.id, TsValues(item), <<>>)

ClassItems(its) == SelectSeq(its, IsClass)

\* BuildClasses as a whole, from the forward declared map
RECURSIVE BuildClasses(_, _, _)
BuildClasses(v, its, m) ==
  IF its = <<>> THEN [ok |-> TRUE, m |-> m]
  ELSE LET r == BuildOne(v, m, Head(its))
       IN  IF ~r.ok THEN [ok |-> FALSE, m |-> r.m] ELSE BuildClasses(v, Tail(its), r.m)

ProcessClasses(v, its) ==
  BuildClasses(v, ClassItems(its), ForwardDeclareClasses(its).m)

----------------------------------------------------------------------------
(* lib/toProperty.ts: PropertyType.init and Property                       *)

NewProperty(item) ==
  [key |-> item.id, types |-> item.rangeIncludes,
   comment |-> (LET cs == GetComments(item) IN IF Len(cs) > 0 THEN <<cs[1]>> ELSE <<>>),
   deprecated |-> item.supersededBy # <<>>, literal |-> <<>>]

\* new Property('@type', new StringLiteralType(name)) / new TypeProperty(subject)
TypeProperty(id) ==
  [key |-> "@type", types |-> <<>>, comment |-> <<>>, deprecated |-> FALSE,
   literal |-> <<id>>]

\* cls.addProp(...) for the domains in order, until one does not resolve
RECURSIVE AddToDomains(_, _, _)
AddToDomains(m, domains, prop) ==
  IF domains = <<>> THEN [ok |-> TRUE, m |-> m]
  ELSE IF Head(domains) \notin DOMAIN m THEN [ok |-> FALSE, m |-> m]
  ELSE AddToDomains([m EXCEPT ![Head(domains)].props = Append(@, prop)],
                    Tail(domains), prop)

PropertyTypeInit(m, item) ==
  IF \E i \in DOMAIN item.rangeIncludes : item.rangeIncludes[i] \notin DOMAIN m
  THEN [ok |-> FALSE, m |-> m]
  ELSE AddToDomains(m, item.domainIncludes, NewProperty(item))

PropertyInitLog(item) ==
  IF Len(GetComments(item)) > 1 THEN <<LogEntry("duplicateComment", item.id)>> ELSE <<>>

IsPropertyItem(item) == \E i \in DOMAIN item.types : IsPropertyType(item.types[i])

\* FindProperties
FindProperties(its) == SelectSeq(its, IsPropertyItem)

----------------------------------------------------------------------------
(* lib/toClass.ts: EnumValue.init, and the enum resolver of the triple     *)
(* based build                                                             *)

IsEnumItem(item) == HasEnumType(GetTypes(item))

EnumItems(its) == SelectSeq(its, IsEnumItem)

NotClassOrDataType(type) == ~(IsClassType(type) \/ IsDataType(type))

NotWellKnown(type) == ~IsWellKnownType(type)

\* EnumValue.init: the first type that is neither rdfs:Class nor DataType is
\* looked up; init returns right after addEnum, before the comment is read
EnumValueInit(m, item) ==
  LET cand == SelectSeq(GetTypes(item), NotClassOrDataType)
  IN  IF cand = <<>> THEN [ok |-> TRUE, m |-> m]
      ELSE IF cand[1] \notin DOMAIN m THEN [ok |-> FALSE, m |-> m]
      ELSE [ok |-> TRUE,
            m |-> [m EXCEPT ![cand[1]].enums =
                              Append(@, [id |-> item.id, comment |-> <<>>])]]

\* the enum resolver of the triple based build: the first tag that is not a
\* well-known meta type owns the member; the member carries its last comment
TsEnumValueInit(m, item) ==
  LET cand == SelectSeq(GetTypes(item), NotWellKnown)
      cs == GetComments(item)
  IN  IF cand = <<>> THEN [ok |-> TRUE, m |-> m]
      ELSE IF cand[1] \notin DOMAIN m THEN [ok |-> FALSE, m |-> m]
      ELSE [ok |-> TRUE,
            m |-> [m EXCEPT ![cand[1]].enums =
                     Append(@, [id |-> item.id,
                                comment |-> IF cs = <<>> THEN <<>> ELSE <<cs[Len(cs)]>>])]]

EnumOne(v, m, item) == IF v = "lib" THEN EnumValueInit(m, item) ELSE TsEnumValueInit(m, item)

----------------------------------------------------------------------------
(* Type expressions.  A node is [k, n, a, c]: kind, name, operands and     *)
(* attached comment.  A name is <<identifier, suffix>>, standing for the   *)
(* scoped name of the identifier followed by the suffix.                   *)

NoName == <<"", "">>

Node(k, n, a, c) == [k |-> k, n |-> n, a |-> a, c |-> c]

createTypeReferenceNode(name) == Node("ref", name, <<>>, <<>>)
createUnionTypeNode(ts) == Node("union", NoName, ts, <<>>)
createIntersectionTypeNode(ts) == Node("intersection", NoName, ts, <<>>)
createParenthesizedType(t) == Node("paren", NoName, <<t>>, <<>>)
createTypeLiteralNode(ps) == Node("literal", NoName, ps, <<>>)
createArrayTypeNode(t) == Node("array", NoName, <<t>>, <<>>)
createStringLiteral(v) == Node("string", <<v, "">>, <<>>, <<>>)
NeverKeyword == Node("never", NoName, <<>>, <<>>)

\* ts/util/names.ts.  A name is the sequence of its characters.
MaxNameLen == 3

Alphabet == {"P", "3", "_", "-"}

UrlNode(name) == [type |-> "UrlNode", name |-> name]

\* a UrlNode whose name is null
UrlNodeNoName == [type |-> "UrlNode", name |-> <<"null">>]

BlankNode == [type |-> "BlankNode", name |-> <<>>]

NoSubject == [type |-> "none", name |-> <<>>]

\* nameFromUrl: throws when the node has no name
nameFromUrl(node) ==
  IF node = UrlNodeNoName THEN [ok |-> FALSE, name |-> <<>>]
  ELSE [ok |-> TRUE, name |-> node.name]

toClassName(s) ==
  IF s.type = "UrlNode" THEN nameFromUrl(s) ELSE [ok |-> FALSE, name |-> <<>>]

\* toScopedName / toClassName of the node stored under id
className(id) == <<id, "">>
enumName(id) == <<id, "Enum">>
baseName(m, id) == IF m[id].builtin THEN <<id, "">> ELSE <<id, "Base">>

\* Array.prototype.sort (stable) with the comparator given as the table of
\* its results on the pairs of elements
StableSort(s, cmp) ==
  LET pos(i) == 1 + Cardinality({j \in DOMAIN s :
                     cmp[<<s[j], s[i]>>] < 0 \/ (cmp[<<s[j], s[i]>>] = 0 /\ j < i)})
  IN  [k \in DOMAIN s |-> s[CHOOSE i \in DOMAIN s : pos(i) = k]]

\* ts/class.ts: CompareKeys
CompareKeys(a, b) ==
  LET byName == localeCompare(HumanName(a), HumanName(b))
  IN  IF byName # 0 THEN byName ELSE localeCompare(a, b)

\* ts/class.ts: Sort, on the nodes stored under a and b
Sort(m, a, b) ==
  IF m[a].builtin
  THEN IF m[b].builtin THEN localeCompare(HumanName(a), HumanName(b)) ELSE -1
  ELSE IF m[b].builtin THEN 1 ELSE CompareKeys(a, b)

\* no call of Sort yet
NoSorts == [a |-> "", b |-> "", c |-> "", ab |-> 0, ba |-> 0, bc |-> 0, ac |-> 0]

----------------------------------------------------------------------------
(* Property.toNode (lib/toProperty.ts)                                     *)

startsWithAt(key) == key = "@type"

required(prop) == startsWithAt(prop.key)

\* a scalar type that is a union whatever the number of range types
ScalarAlwaysUnion(prop) ==
  IF prop.literal # <<>> THEN createStringLiteral(prop.literal[1])
  ELSE createUnionTypeNode([i \in DOMAIN prop.types |->
                              createTypeReferenceNode(className(prop.types[i]))])

scalarTypeNode(prop) ==
  IF prop.literal # <<>> THEN createStringLiteral(prop.literal[1])
  ELSE LET typeNodes == [i \in DOMAIN prop.types |->
                           createTypeReferenceNode(className(prop.types[i]))]
       IN  IF Len(typeNodes) = 0 THEN NeverKeyword
           ELSE IF Len(typeNodes) = 1 THEN typeNodes[1]
           ELSE createUnionTypeNode(typeNodes)

\* a value type without the array alternative
TypeNodeScalarOnly(prop) ==
  IF startsWithAt(prop.key) THEN scalarTypeNode(prop)
  ELSE createUnionTypeNode(<<scalarTypeNode(prop)>>)

typeNode(prop) ==
  LET node == scalarTypeNode(prop)
  IN  IF startsWithAt(prop.key) THEN node
      ELSE createUnionTypeNode(<<node, createArrayTypeNode(node)>>)

PropertyToNode(prop) ==
  Node(IF required(prop) THEN "property" ELSE "property?",
       <<prop.key, "">>, <<typeNode(prop)>>, prop.comment)

----------------------------------------------------------------------------
(* Class: aliasesBuiltin, isLeaf, properties, baseNode, nonEnumType,       *)
(* totalType, enumDecl, toNode.  A walk reports "T", "F", or "O" when the   *)
(* recursion re-enters a class that is still on the call stack (it never   *)
(* returns: the call stack overflows and a RangeError is thrown).          *)

\* a walk that looks at the direct parents only
DirectParentsOnly(m, ps, stack) ==
  IF \E i \in DOMAIN ps : m[ps[i]].builtin THEN "T" ELSE "F"

RECURSIVE WalkParents(_, _, _)
WalkParents(m, ps, stack) ==
  IF ps = <<>> THEN "F"
  ELSE LET p == Head(ps)
       IN  IF m[p].builtin THEN "T"
           ELSE IF p \in stack THEN "O"
           ELSE LET r == WalkParents(m, m[p].parents, stack \cup {p})
                IN  IF r = "F" THEN WalkParents(m, Tail(ps), stack) ELSE r

aliasesBuiltin(m, id) == WalkParents(m, m[id].parents, {id})

isLeaf(m, id) ==
  IF Len(m[id].children) # 0 THEN "F"
  ELSE LET r == aliasesBuiltin(m, id)
       IN  IF r = "T" THEN "F" ELSE IF r = "F" THEN "T" ELSE "O"

\* the comparators of the three in-place sorts
PropKeyCompare(ps) == [x \in Range(ps) \X Range(ps) |-> CompareKeys(x[1].key, x[2].key)]

ChildCompare(cs) == [x \in Range(cs) \X Range(cs) |-> CompareKeys(x[1], x[2])]

EnumValueCompare(es) == [x \in Range(es) \X Range(es) |-> CompareKeys(x[1].id, x[2].id)]

\* in-place sorts that also drop repeated entries
SortedUnique(v, node) ==
  [node EXCEPT !.props = Dedup(StableSort(@, PropKeyCompare(@))),
               !.children = Dedup(StableSort(@, ChildCompare(@))),
               !.enums = Dedup(StableSort(@, EnumValueCompare(@)))]

\* the in-place sorts of the ts build (properties(), nonEnumType(), enumDecl())
SortedNode(v, node) ==
  IF v = "lib" THEN node
  ELSE [node EXCEPT !.props = StableSort(@, PropKeyCompare(@)),
                    !.children = StableSort(@, ChildCompare(@)),
                    !.enums = StableSort(@, EnumValueCompare(@))]

\* properties(), on a node whose lists are already in emission order
properties(m, id) ==
  IF isLeaf(m, id) = "T" THEN <<TypeProperty(id)>> \o m[id].props ELSE m[id].props

Emitted(prop, skipDeprecatedProperties) == ~prop.deprecated \/ ~skipDeprecatedProperties

KeepAll(prop) == Emitted(prop, FALSE)

KeepCurrent(prop) == Emitted(prop, TRUE)

\* a base shape that extends the first parent only
FirstParentType(m, id) ==
  IF m[id].parents = <<>> THEN <<>>
  ELSE <<createTypeReferenceNode(baseName(m, m[id].parents[1]))>>

\* this.parents.map(p => createTypeReferenceNode(p.baseName(), []))
parentTypes(m, id) ==
  [i \in DOMAIN m[id].parents |-> createTypeReferenceNode(baseName(m, m[id].parents[i]))]

baseNode(m, id, skip) ==
  LET kept == IF skip THEN SelectSeq(properties(m, id), KeepCurrent)
              ELSE SelectSeq(properties(m, id), KeepAll)
      propLiteral == createTypeLiteralNode([i \in DOMAIN kept |-> PropertyToNode(kept[i])])
      hasParent == Len(parentTypes(m, id)) # 0
      parentNode == IF Len(parentTypes(m, id)) = 1 THEN parentTypes(m, id)[1]
                    ELSE createParenthesizedType(
                           createIntersectionTypeNode(parentTypes(m, id)))
  IN  IF hasParent /\ Len(propLiteral.a) > 0
      THEN createIntersectionTypeNode(<<parentNode, propLiteral>>)
      ELSE IF hasParent THEN parentNode
      ELSE IF Len(propLiteral.a) > 0 THEN propLiteral
      ELSE NeverKeyword

childrenNode(m, id) ==
  LET children == [i \in DOMAIN m[id].children |->
                     createTypeReferenceNode(className(m[id].children[i]))]
  IN  IF Len(children) = 1 THEN children[1]
      ELSE createParenthesizedType(createUnionTypeNode(children))

\* nonEnumType of lib/toClass.ts
LibNonEnumType(m, id) ==
  IF Len(m[id].children) # 0 THEN childrenNode(m, id)
  ELSE createTypeReferenceNode(baseName(m, id))

\* nonEnumType of ts/class.ts
TsNonEnumType(m, id) ==
  IF Len(m[id].children) # 0
  THEN createUnionTypeNode(<<
         createIntersectionTypeNode(<<
           createTypeLiteralNode(<<PropertyToNode(TypeProperty(id))>>),
           createTypeReferenceNode(baseName(m, id))>>),
         childrenNode(m, id)>>)
  ELSE createTypeReferenceNode(baseName(m, id))

nonEnumType(v, m, id) == IF v = "lib" THEN LibNonEnumType(m, id) ELSE TsNonEnumType(m, id)

totalType(v, m, id) ==
  IF Len(m[id].enums) > 0
  THEN createUnionTypeNode(<<createTypeReferenceNode(enumName(id)),
                             createParenthesizedType(nonEnumType(v, m, id))>>)
  ELSE nonEnumType(v, m, id)

\* EnumValue.toNode
EnumMember(e) == Node("enumMember", <<e.id, "">>, <<createStringLiteral(e.id)>>, e.comment)

Decl(d, owner, name, exported, t, ms, c) ==
  [d |-> d, owner |-> owner, name |-> name, exported |-> exported, t |-> t,
   ms |-> ms, c |-> c]

DeclComment(text, dep) == [text |-> text, dep |-> dep]

enumDecl(m, id) ==
  IF Len(m[id].enums) = 0 THEN <<>>
  ELSE <<Decl("enum", id, enumName(id), TRUE, NeverKeyword,
              [i \in DOMAIN m[id].enums |-> EnumMember(m[id].enums[i])],
              DeclComment(<<>>, <<>>))>>

baseDecl(m, id, skip) ==
  Decl("base", id, baseName(m, id), FALSE, baseNode(m, id, skip), <<>>,
       DeclComment(<<>>, <<>>))

\* a comment getter that never adds the deprecation notice
CommentOnly(m, id) == DeclComment(m[id].comment, <<>>)

\* the comment getter of ts/class.ts; the lib build has no supersession list
comment(m, id) ==
  DeclComment(m[id].comment,
              [i \in DOMAIN m[id].supersededBy |-> className(m[id].supersededBy[i])])

equivTo(id) ==
  CASE id = "Number" -> "number"
    [] id = "Boolean" -> "boolean"
    [] OTHER -> "string"

\* Builtin.toNode
BuiltinToNode(id) ==
  <<Decl("alias", id, <<id, "">>, TRUE, createTypeReferenceNode(<<equivTo(id), "">>),
         <<>>, DeclComment(<<"doc">>, <<>>))>>

\* a toNode that puts the total type first
ClassToNodeTypeFirst(v, m, id, skip) ==
  <<Decl("type", id, className(id), TRUE, totalType(v, m, id), <<>>, comment(m, id))>>
  \o enumDecl(m, id)
  \o <<baseDecl(m, id, skip)>>

\* Class.toNode on a node whose lists are already in emission order
ClassToNode(v, m, id, skip) ==
  enumDecl(m, id)
  \o <<baseDecl(m, id, skip),
       Decl("type", id, className(id), TRUE, totalType(v, m, id), <<>>, comment(m, id))>>

\* toNode: the declarations, the registry after the call (the ts build sorts
\* the node's lists in place), and whether the call returned
toNode(v, m, id, skip) ==
  IF m[id].builtin THEN [ok |-> TRUE, m |-> m, decls |-> BuiltinToNode(id)]
  ELSE LET m1 == [m EXCEPT ![id] = SortedNode(v, @)]
       IN  IF isLeaf(m1, id) = "O" THEN [ok |-> FALSE, m |-> m1, decls |-> <<>>]
           ELSE [ok |-> TRUE, m |-> m1, decls |-> ClassToNode(v, m1, id, skip)]

----------------------------------------------------------------------------
(* Inputs.                                                                 *)

Targets == ClassIds \cup {"Text", MissingId}

ClassTopicS(id, parents, sup) ==
  Item(id, <<LD_CLASS>>, IF id = "A" THEN <<Plain("cA")>> ELSE <<>>, parents, sup, <<>>, <<>>)

ClassTopic(id, parents) == ClassTopicS(id, parents, <<>>)

PropertyTopic(id, domain, range, sup) ==
  Item(id, <<LD_PROPERTY>>, <<Plain("cp")>>, <<>>, sup, domain, range)

EnumTopic(id, types) == Item(id, types, <<Plain("ce")>>, <<>>, <<>>, <<>>, <<>>)

\* subclass references as (class, parent) pairs, grouped by class
RefLists ==
  UNION {{r \in [1..k -> ClassIds \X Targets] :
            \A i \in 1..(k - 1) : StrRank(r[i][1]) <= StrRank(r[i + 1][1])} :
         k \in 0..MaxRefs}

IsRefOf(id, ref) == ref[1] = id

ParentsOf(refs, id) ==
  LET mine == SelectSeq(refs, LAMBDA ref : IsRefOf(id, ref))
  IN  [i \in DOMAIN mine |-> mine[i][2]]

BaseClasses == <<ClassTopic("A", <<>>), ClassTopic("B", <<"A">>), ClassTopic("C", <<"Text">>)>>

BaseProperty == PropertyTopic("p", <<"A">>, <<"Text">>, <<>>)

\* three orders of three topics: as given, reversed, rotated
Orders(s) == {s, <<s[3], s[2], s[1]>>, <<s[2], s[3], s[1]>>}

\* the class graph varies: every distribution of at most MaxRefs subclass
\* references over A, B and C, the three topics in three orders
GraphInputs ==
  {cs \o <<BaseProperty>> :
     cs \in UNION {Orders(<<ClassTopic("A", ParentsOf(refs, "A")),
                            ClassTopic("B", ParentsOf(refs, "B")),
                            ClassTopic("C", ParentsOf(refs, "C"))>>) : refs \in RefLists}}

DomainOptions == {<<"A">>, <<"A", "B">>, <<"B", MissingId>>, <<"C">>, <<MissingId>>}

RangeOptions == {<<>>, <<"Text">>, <<"Text", "A">>, <<MissingId>>}

SecondProperty == PropertyTopic("q", <<"A">>, <<"Number">>, <<>>)

\* the property topics vary
PropertyInputs ==
  {BaseClasses} \cup
  {BaseClasses \o ps :
     ps \in UNION {{<<PropertyTopic("p", d, r, sup)>>,
                    <<PropertyTopic("p", d, r, sup), SecondProperty>>,
                    <<SecondProperty, PropertyTopic("p", d, r, sup)>>} :
                   d \in DomainOptions, r \in RangeOptions, sup \in {<<>>, <<"q">>}}}

EnumIds == <<"e1", "e2">>

TypeOptions ==
  {<<"A">>, <<"B">>, <<"C">>, <<LD_CLASS, "A">>, <<"A", "B">>, <<MissingId>>,
   <<LD_PROPERTY, "A">>}

\* the enum member topics vary: any of them, in every order
EnumInputs ==
  {BaseClasses \o <<BaseProperty>> \o es :
     es \in UNION {{[i \in 1..k |-> EnumTopic(EnumIds[f[i]], ty[i])] :
                      f \in {g \in [1..k -> DOMAIN EnumIds] :
                               \A i, j \in 1..k : i # j => g[i] # g[j]},
                      ty \in [1..k -> TypeOptions]} :
                   k \in 0..Len(EnumIds)}}

\* the superseded-by references of a class vary
SupersededInputs ==
  {<<ClassTopicS("A", <<>>, sup), ClassTopic("B", <<"A">>), ClassTopic("C", <<"Text">>),
     BaseProperty>> :
     sup \in {<<"B">>, <<"B", "C">>, <<MissingId>>, <<"B", MissingId>>}}

\* a declaration of the subject p
PropertyDecl(types, domain, range, text, label, other) ==
  [Item("p", types, text, <<>>, <<>>, domain, range) EXCEPT !.label = label, !.other = other]

\* a member that holds a nested '@graph'
GraphMember(ms) ==
  [Item("", <<>>, <<>>, <<>>, <<>>, <<>>, <<>>) EXCEPT !.other = {"graph"}, !.graph = ms]

\* the meta.schema.org test comment
TestComment ==
  [Item(MetaId, <<>>, <<Plain("A test comment.")>>, <<>>, <<>>, <<>>, <<>>)
     EXCEPT !.label = <<"meta">>]

\* declarations of p that supply different fields
Declarations ==
  {PropertyDecl(<<LD_PROPERTY>>, <<"A">>, <<"Text">>, <<Plain("c1")>>, <<"l1">>, {}),
   PropertyDecl(<<LD_PROPERTY>>, <<"B">>, <<"Number">>, <<Plain("c2")>>, <<>>, {}),
   PropertyDecl(<<LD_PROPERTY>>, <<"A", "A">>, <<>>, <<>>, <<"l2">>, {}),
   PropertyDecl(<<LD_PROPERTY>>, <<"B", "A">>, <<"Text">>, <<Plain("c1")>>, <<>>, {"source"}),
   PropertyDecl(<<LD_PROPERTY>>, <<>>, <<>>, <<>>, <<"l1">>, {}),
   PropertyDecl(<<>>, <<"C">>, <<"Boolean">>, <<Plain("c3")>>, <<>>, {})}

\* members the filters of group are about
Provenance ==
  {PropertyDecl(<<>>, <<"C">>, <<>>, <<Plain("c3")>>, <<>>, {key}) :
     key \in {"source", "closeMatch", "softwareVersion"}}
  \cup {TestComment, [TestComment EXCEPT !.types = <<LD_CLASS>>]}

\* one subject declared once or twice, flat or in nested graphs, next to
\* members that carry provenance only
MergeTails ==
  {<<d>> : d \in Declarations \cup Provenance}
  \cup {<<d1, d2>> : d1 \in Declarations, d2 \in Declarations \cup Provenance}
  \cup {<<d1, GraphMember(<<d2>>)>> : d1, d2 \in Declarations}
  \cup {<<GraphMember(<<GraphMember(<<d1>>), d2>>)>> : d1 \in Declarations \cup Provenance,
                                                        d2 \in Declarations}

MergeInputs == {BaseClasses \o <<SecondProperty>> \o tail : tail \in MergeTails}

\* a class and an enum member declared twice
RedeclaredInputs ==
  {<<ClassTopic("A", <<>>), ClassTopic("B", x), ClassTopic("C", <<"Text">>), BaseProperty,
     ClassTopic("B", y)>> :
     x, y \in {<<>>, <<"A">>, <<"C">>, <<"A", "C">>}}
  \cup {BaseClasses \o <<BaseProperty, EnumTopic("e1", t1), EnumTopic("e1", t2)>> :
          t1, t2 \in {<<"A">>, <<LD_CLASS, "A">>, <<"B">>}}

\* a topic that has the identifier of a builtin: typed as schema.org types the
\* data types (DataType and Class), or as a class only
BuiltinTopicInputs ==
  {BaseClasses \o <<BaseProperty, Item(b, types, <<Plain("cT")>>, <<>>, <<>>, <<>>, <<>>)>> :
     b \in {"Text", "Number"}, types \in {<<LD_DATATYPE, LD_CLASS>>, <<LD_CLASS>>}}

\* a class topic with several comments
CommentedInputs ==
  {<<[ClassTopic("A", <<>>) EXCEPT !.comment = cs], ClassTopic("B", <<"A">>),
     ClassTopic("C", <<"Text">>), BaseProperty>> :
     cs \in {<<Plain("c1"), Plain("c2")>>, <<Plain("c2"), Plain("c1")>>,
             <<Plain("c1"), Plain("c1")>>}}

Inputs ==
  GraphInputs \cup PropertyInputs \cup EnumInputs \cup SupersededInputs
  \cup MergeInputs \cup RedeclaredInputs \cup BuiltinTopicInputs \cup CommentedInputs

----------------------------------------------------------------------------
(* main (generator/run.ts), stage by stage.                                *)

Header == Decl("header", "", NoName, FALSE, NeverKeyword, <<>>, DeclComment(<<>>, <<>>))

Init ==
  /\ variant \in {"lib", "ts"}
  /\ members \in Inputs
  /\ skipDeprecated \in (IF variant = "ts" /\ members \in PropertyInputs
                         THEN BOOLEAN ELSE {FALSE})
  /\ items = <<>>
  /\ classes = EmptyMap
  /\ order = <<>>
  /\ pc = "group"
  /\ idx = 1
  /\ out = <<>>
  /\ err = "none"
  /\ log = <<>>
  /\ builtins = FreshBuiltins
  /\ run = 1
  /\ first = [pc |-> "none", err |-> "none", out |-> <<>>]
  /\ subject = NoSubject
  /\ named = <<>>
  /\ sorts = NoSorts

\* where main goes once ProcessClasses has returned: FindProperties throws
\* when there is no property topic (lib build)
AfterClasses(v, its) ==
  IF FindProperties(its) # <<>> THEN [pc |-> "props", err |-> "none"]
  ELSE IF v = "lib" THEN [pc |-> "aborted", err |-> "noProperties"]
  ELSE IF EnumItems(its) # <<>> THEN [pc |-> "enums", err |-> "none"]
  ELSE [pc |-> "header", err |-> "none"]

\* a property stage that hands over to the emission at once
AfterPropertiesNoEnums(its) == "header"

AfterProperties(its) == IF EnumItems(its) # <<>> THEN "enums" ELSE "header"

\* group(ontology['@graph'], byId); items = Array.from(byId.values())
Group ==
  /\ pc = "group"
  /\ LET g == group(members, [items |-> <<>>, log |-> <<>>])
     IN  /\ items' = g.items
         /\ log' = log \o g.log
         /\ members' = Aliased(members, {}, g.items).ms
  /\ pc' = "forward"
  /\ UNCHANGED <<sorts, subject, named, builtins, run, first, variant, skipDeprecated, classes, order, idx, out, err>>

\* ProcessClasses, pass 1
ForwardDeclare ==
  /\ pc = "forward"
  /\ LET cm == ForwardDeclareClasses(items)
         nxt == AfterClasses(variant, items)
     IN  IF \E i \in DOMAIN items : TypesMissing(items[i])
         THEN /\ pc' = "aborted" /\ err' = "noType"
              /\ UNCHANGED <<classes, order>>
         ELSE /\ classes' = cm.m
              /\ order' = cm.o
              /\ IF ClassItems(items) # <<>>
                 THEN pc' = "build" /\ err' = err
                 ELSE pc' = nxt.pc /\ err' = nxt.err
  /\ idx' = 1
  /\ UNCHANGED <<sorts, subject, named, builtins, run, first, variant, skipDeprecated, members, items, out, log>>

\* ProcessClasses, pass 2: one iteration of BuildClasses
BuildStep ==
  /\ pc = "build"
  /\ LET cis == ClassItems(items)
         r == BuildOne(variant, classes, cis[idx])
         nxt == AfterClasses(variant, items)
     IN  /\ classes' = r.m
         /\ log' = log \o r.log
         /\ IF ~r.ok THEN pc' = "aborted" /\ err' = "class" /\ idx' = idx
            ELSE IF idx < Len(cis) THEN pc' = pc /\ err' = err /\ idx' = idx + 1
            ELSE pc' = nxt.pc /\ err' = nxt.err /\ idx' = 1
  /\ UNCHANGED <<sorts, subject, named, builtins, run, first, variant, skipDeprecated, members, items, order, out>>

\* one iteration of the loop over the property topics
PropertyStep ==
  /\ pc = "props"
  /\ LET ps == FindProperties(items)
         r == PropertyTypeInit(classes, ps[idx])
     IN  /\ classes' = r.m
         /\ log' = log \o PropertyInitLog(ps[idx])
         /\ IF ~r.ok THEN pc' = "aborted" /\ err' = "property" /\ idx' = idx
            ELSE IF idx < Len(ps) THEN pc' = pc /\ err' = err /\ idx' = idx + 1
            ELSE pc' = AfterProperties(items) /\ err' = err /\ idx' = 1
  /\ UNCHANGED <<sorts, subject, named, builtins, run, first, variant, skipDeprecated, members, items, order, out>>

\* one iteration of the loop over the enum member topics
EnumStep ==
  /\ pc = "enums"
  /\ LET es == EnumItems(items)
         r == EnumOne(variant, classes, es[idx])
     IN  /\ classes' = r.m
         /\ IF ~r.ok THEN pc' = "aborted" /\ err' = "enum" /\ idx' = idx
            ELSE IF idx < Len(es) THEN pc' = pc /\ err' = err /\ idx' = idx + 1
            ELSE pc' = "header" /\ err' = err /\ idx' = 1
  /\ UNCHANGED <<sorts, subject, named, builtins, run, first, variant, skipDeprecated, members, items, order, out, log>>

\* write('// tslint:disable\n\n')
WriteHeader ==
  /\ pc = "header"
  /\ out' = Append(out, Header)
  /\ pc' = "emit"
  /\ idx' = 1
  /\ UNCHANGED <<sorts, subject, named, builtins, run, first, variant, skipDeprecated, members, items, classes, order, err, log>>

SortCompare(m, o) == [x \in Range(o) \X Range(o) |-> Sort(m, x[1], x[2])]

\* the order the classes are written in: the iteration order of the map in
\* main of run.ts; the Sort order in the triple based build
EmitOrder(v, m, o) ==
  IF v = "lib" THEN o ELSE StableSort(o, SortCompare(m, o))

\* for (const cls of classes.entries()) for (const node of cls[1].toNode()) write(...)
\* until a toNode does not return
RECURSIVE EmitAll(_, _, _, _, _)
EmitAll(v, m, ids, skip, written) ==
  IF ids = <<>> THEN [ok |-> TRUE, m |-> m, out |-> written]
  ELSE LET r == toNode(v, m, Head(ids), skip)
       IN  IF ~r.ok THEN [ok |-> FALSE, m |-> r.m, out |-> written]
           ELSE EmitAll(v, r.m, Tail(ids), skip, written \o r.decls)

\* the loop that writes the declarations
Emit ==
  /\ pc = "emit"
  /\ LET r == EmitAll(variant, classes, EmitOrder(variant, classes, order),
                      skipDeprecated, out)
     IN  /\ classes' = r.m
         /\ out' = r.out
         /\ IF r.ok THEN pc' = "done" /\ err' = err
            ELSE pc' = "aborted" /\ err' = "overflow"
  /\ UNCHANGED <<sorts, subject, named, builtins, run, first, variant, skipDeprecated, members, items, order, idx, log>>

Next == Group \/ ForwardDeclare \/ BuildStep \/ PropertyStep \/ EnumStep \/ WriteHeader \/ Emit

Spec == Init /\ [][Next]_vars

\* the pipeline is run once more in the same process, on the same member
\* objects: the module-level Builtin objects are as the first run left them
Rerun ==
  /\ pc \in {"done", "aborted"}
  /\ run = 1
  /\ run' = 2
  /\ first' = [pc |-> pc, err |-> err, out |-> out]
  /\ builtins' = [b \in DOMAIN builtins |->
                    IF b \in DOMAIN classes /\ classes[b].builtin THEN classes[b]
                    ELSE builtins[b]]
  /\ items' = <<>>
  /\ classes' = EmptyMap
  /\ order' = <<>>
  /\ pc' = "group"
  /\ idx' = 1
  /\ out' = <<>>
  /\ err' = "none"
  /\ log' = <<>>
  /\ UNCHANGED <<sorts, subject, named, variant, skipDeprecated, members>>

NextRerun == Next \/ Rerun

SpecRerun == Init /\ [][NextRerun]_vars

----------------------------------------------------------------------------
(* Properties of the pipeline.                                             *)

RefErrors == {"class", "property", "enum"}

\* ProcessClasses has returned
ClassesBuilt ==
  \/ pc \in {"props", "enums", "header", "emit", "done"}
  \/ pc = "aborted" /\ err \notin {"class", "noType"}

\* resolution has completed
Resolved == pc \in {"header", "emit", "done"} \/ (pc = "aborted" /\ err = "overflow")

RegularIds(m) == {c \in DOMAIN m : ~m[c].builtin}

ParentEdges(m) == {e \in (DOMAIN m) \X (DOMAIN m) : e[2] \in Range(m[e[1]].parents)}

ChildEdges(m) == {e \in (DOMAIN m) \X (DOMAIN m) : e[1] \in Range(m[e[2]].children)}

\* every subclass-of reference of a class topic names a forward declared class
AllParentsDeclared(its) ==
  \A i \in DOMAIN its :
    IsClass(its[i]) =>
      \A j \in DOMAIN its[i].subClassOf :
        its[i].subClassOf[j] \in DOMAIN ForwardDeclareClasses(its).m

\* every superseded-by reference of a class topic names a forward declared class
AllSupersedersDeclared(its) ==
  \A i \in DOMAIN its :
    IsClass(its[i]) =>
      \A j \in DOMAIN its[i].supersededBy :
        its[i].supersededBy[j] \in DOMAIN ForwardDeclareClasses(its).m

----------------------------------------------------------------------------
(* References and fatal errors.                                            *)

\* the property stage has returned
PropertiesDone ==
  \/ pc \in {"enums", "header", "emit", "done"}
  \/ pc = "aborted" /\ err \in {"enum", "overflow"}

\* the references a class topic declares
ClassRefs(item) == item.subClassOf \o item.supersededBy

\* the references a property topic declares
PropertyRefs(item) == item.rangeIncludes \o item.domainIncludes

\* the owner type an enum member topic declares: its first type tag that is
\* not a meta type
OwnerRefs(item) ==
  LET cand == SelectSeq(GetTypes(item), NotWellKnown)
  IN  IF cand = <<>> THEN <<>> ELSE <<cand[1]>>

\* C2: an unresolved reference is fatal.  Once a stage has returned without
\* throwing, every reference that the stage is to resolve (subclass-of parents
\* and superseded-by targets of the class topics, ranges and domains of the
\* property topics, owner types of the enum member topics) is a key of the
\* ClassMap.
C2_UnresolvedReferenceIsFatal ==
  /\ ClassesBuilt =>
       \A i \in DOMAIN items : IsClass(items[i]) =>
         Range(ClassRefs(items[i])) \subseteq DOMAIN classes
  /\ PropertiesDone =>
       \A i \in DOMAIN items : IsPropertyItem(items[i]) =>
         Range(PropertyRefs(items[i])) \subseteq DOMAIN classes
  /\ Resolved =>
       \A i \in DOMAIN items : IsEnumItem(items[i]) =>
         Range(OwnerRefs(items[i])) \subseteq DOMAIN classes

----------------------------------------------------------------------------
(* Stage order.                                                            *)

RECURSIVE InitProperties(_, _)
InitProperties(m, ps) ==
  IF ps = <<>> THEN [ok |-> TRUE, m |-> m]
  ELSE LET r == PropertyTypeInit(m, Head(ps))
       IN  IF ~r.ok THEN r ELSE InitProperties(r.m, Tail(ps))

RECURSIVE InitEnums(_, _, _)
InitEnums(v, m, es) ==
  IF es = <<>> THEN [ok |-> TRUE, m |-> m]
  ELSE LET r == EnumOne(v, m, Head(es))
       IN  IF ~r.ok THEN r ELSE InitEnums(v, r.m, Tail(es))

\* the resolution stages of main, each run to completion on the result of
\* the one before
ResolveAll(v, its) ==
  LET c == ProcessClasses(v, its)
      p == IF c.ok THEN InitProperties(c.m, FindProperties(its)) ELSE c
  IN  IF p.ok THEN InitEnums(v, p.m, EnumItems(its)) ELSE p

StageRank(p) ==
  CASE p = "group" -> 0
    [] p = "forward" -> 1
    [] p = "build" -> 2
    [] p = "props" -> 3
    [] p = "enums" -> 4
    [] p = "header" -> 5
    [] p = "emit" -> 6
    [] OTHER -> 7

\* output exists only in and after the emission; when the header is about to
\* be written the ClassMap is the result of all the resolution stages run to
\* completion; a run that aborted on an unresolved reference has written nothing
OutputOnlyAfterResolution ==
  /\ out # <<>> => (pc \in {"emit", "done"} \/ (pc = "aborted" /\ err = "overflow"))
  /\ (pc = "aborted" /\ err \in RefErrors) => out = <<>>
  /\ pc \in {"header", "emit"} =>
       LET r == ResolveAll(variant, items) IN r.ok /\ r.m = classes

\* C3: the stages run in sequence and nothing is written before resolution is
\* complete.  No step goes back to an earlier stage, output exists only once
\* every resolution stage has run to completion, and a run that aborted on an
\* unresolved reference has written nothing, not even the header.
C3_NoOutputBeforeResolution ==
  /\ []OutputOnlyAfterResolution
  /\ [][StageRank(pc) <= StageRank(pc')]_vars

\* a run that stopped on an unresolved reference of some stage
C3_Witness ==
  /\ pc = "aborted"
  /\ err = "enum"
  /\ out = <<>>
  /\ \E i \in DOMAIN items : IsPropertyItem(items[i])

----------------------------------------------------------------------------
(* Leaf discriminant.                                                      *)

\* the declarations of the output that belong to class c, of kind d
DeclsOf(c, d) == SelectSeq(out, LAMBDA x : x.owner = c /\ x.d = d)

\* the classes reachable from the classes of S along parent edges
RECURSIVE Ancestors(_, _)
Ancestors(m, S) ==
  LET T == S \cup UNION {Range(m[c].parents) : c \in S}
  IN  IF T = S THEN S ELSE Ancestors(m, T)

HasBuiltinAncestor(m, c) == \E a \in Ancestors(m, {c}) : m[a].builtin

LeafInGraph(m, c) == Len(m[c].children) = 0 /\ ~HasBuiltinAncestor(m, c)

\* the members of the object literal of a base shape
LiteralOf(t) ==
  IF t.k = "literal" THEN t.a
  ELSE IF t.k = "intersection" /\ t.a[Len(t.a)].k = "literal" THEN t.a[Len(t.a)].a
  ELSE <<>>

IsDiscriminant(field) == field.n = <<"@type", "">>

\* C4: leaf discriminant.  The base shape written for a class has exactly one
\* '@type' field, a required field whose type is the string literal of the
\* class's own name, when in the final graph the class has no children and no
\* Builtin among its transitive ancestors; otherwise it has no '@type' field.
C4_LeafDiscriminant ==
  Resolved =>
    \A i \in DOMAIN out :
      out[i].d = "base" =>
        LET c == out[i].owner
            fs == SelectSeq(LiteralOf(out[i].t), IsDiscriminant)
        IN  IF LeafInGraph(classes, c)
            THEN /\ Len(fs) = 1
                 /\ fs[1].k = "property"
                 /\ fs[1].a = <<createStringLiteral(c)>>
            ELSE fs = <<>>

\* a leaf with its discriminant next to a childless class that is kept from
\* being a leaf by a Builtin two steps up
C4_Witness ==
  /\ pc = "done"
  /\ \E c \in RegularIds(classes) :
       /\ LeafInGraph(classes, c)
       /\ Len(DeclsOf(c, "base")) = 1
       /\ Len(SelectSeq(LiteralOf(DeclsOf(c, "base")[1].t), IsDiscriminant)) = 1
  /\ \E c \in RegularIds(classes) :
       /\ Len(classes[c].children) = 0
       /\ \A j \in DOMAIN classes[c].parents : ~classes[classes[c].parents[j]].builtin
       /\ HasBuiltinAncestor(classes, c)
       /\ Len(DeclsOf(c, "base")) = 1
       /\ SelectSeq(LiteralOf(DeclsOf(c, "base")[1].t), IsDiscriminant) = <<>>

----------------------------------------------------------------------------
(* Edges.                                                                  *)

\* C5: every declared parent becomes an edge.  In every state X is in
\* Y.children as many times as Y is in X.parents, and once the class graph is
\* built every resolvable subclass-of reference of a class topic is among the
\* parents of its class, which is among the children of the parent.
C5_EveryParentBecomesAnEdge ==
  /\ \A x, y \in DOMAIN classes :
       Count(classes[y].children, x) = Count(classes[x].parents, y)
  /\ ClassesBuilt =>
       \A i \in DOMAIN items : IsClass(items[i]) =>
         \A j \in DOMAIN items[i].subClassOf :
           LET p == items[i].subClassOf[j]
           IN  p \in DOMAIN classes =>
                 /\ <<items[i].id, p>> \in ParentEdges(classes)
                 /\ <<items[i].id, p>> \in ChildEdges(classes)

----------------------------------------------------------------------------
(* Shapes.                                                                 *)

Ref(name) == [k |-> "ref", n |-> name, a |-> <<>>, c |-> <<>>]

BaseRefOf(m, p) == Ref(IF m[p].builtin THEN <<p, "">> ELSE <<p, "Base">>)

\* the keys of the fields a class's own literal is to have, from the graph
OwnKeys(m, c, skip) ==
  LET kept == SelectSeq(m[c].props, LAMBDA prop : ~(skip /\ prop.deprecated))
  IN  (IF LeafInGraph(m, c) THEN <<"@type">> ELSE <<>>)
      \o [i \in DOMAIN kept |-> kept[i].key]

KeysOf(fields) == [i \in DOMAIN fields |-> fields[i].n[1]]

\* the parents of c as one type: the reference itself, or the parenthesised
\* intersection of the references in parent order
ParentPart(m, c) ==
  LET refs == [j \in DOMAIN m[c].parents |-> BaseRefOf(m, m[c].parents[j])]
  IN  IF Len(refs) = 1 THEN refs[1]
      ELSE [k |-> "paren", n |-> NoName, c |-> <<>>,
            a |-> <<[k |-> "intersection", n |-> NoName, c |-> <<>>, a |-> refs]>>]

\* C6: multiple inheritance flattening.  The base shape written for a class
\* with parents and at least one emitted property is the intersection of the
\* parent part with the literal of the class's own fields, where the parent
\* part is the one parent's base reference, or for two or more parents the
\* intersection of all their base references in parent order; with parents and
\* no emitted property the base shape is the parent part alone.
C6_MultipleInheritanceFlattening ==
  Resolved =>
    \A i \in DOMAIN out :
      (out[i].d = "base" /\ Len(classes[out[i].owner].parents) >= 1) =>
        LET c == out[i].owner
            t == out[i].t
            keys == OwnKeys(classes, c, skipDeprecated)
        IN  IF keys # <<>>
            THEN /\ t.k = "intersection"
                 /\ Len(t.a) = 2
                 /\ t.a[1] = ParentPart(classes, c)
                 /\ t.a[2].k = "literal"
                 /\ KeysOf(t.a[2].a) = keys
            ELSE t = ParentPart(classes, c)

\* a class with two different parents and a field of its own has been written
C6_Witness ==
  /\ pc = "done"
  /\ \E c \in RegularIds(classes) :
       /\ Len(classes[c].parents) >= 2
       /\ classes[c].parents[1] # classes[c].parents[2]
       /\ Len(DeclsOf(c, "base")) = 1
       /\ DeclsOf(c, "base")[1].t.k = "intersection"
       /\ DeclsOf(c, "base")[1].t.a[1].k = "paren"
       /\ Len(DeclsOf(c, "base")[1].t.a[1].a[1].a) >= 2

\* the class names a children part refers to
ChildNames(t) ==
  IF t.k = "ref" THEN <<t.n>>
  ELSE IF t.k = "paren" /\ t.a[1].k = "union"
       THEN [j \in DOMAIN t.a[1].a |-> t.a[1].a[j].n]
  ELSE <<>>

\* the total type without its enum part
NonEnumPart(t) ==
  IF t.k = "union" /\ Len(t.a) = 2 /\ t.a[1].k = "ref" /\ t.a[1].n[2] = "Enum"
     /\ t.a[2].k = "paren"
  THEN t.a[2].a[1]
  ELSE t

\* C7: non-enum total shape.  The total type written for a class with children
\* is (apart from its enum part) the union of the '@type'-only literal
\* intersected with the class's base reference, and of the references to all
\* its children by class name; for a class without children it is the
\* reference to the class's own base type.
C7_NonEnumTotalShape ==
  Resolved =>
    \A i \in DOMAIN out :
      out[i].d = "type" =>
        LET c == out[i].owner
            t == NonEnumPart(out[i].t)
        IN  IF Len(classes[c].children) = 0 THEN t = BaseRefOf(classes, c)
            ELSE /\ t.k = "union"
                 /\ Len(t.a) = 2
                 /\ t.a[1].k = "intersection"
                 /\ Len(t.a[1].a) = 2
                 /\ t.a[1].a[1].k = "literal"
                 /\ KeysOf(t.a[1].a[1].a) = <<"@type">>
                 /\ t.a[1].a[1].a[1].a = <<createStringLiteral(c)>>
                 /\ t.a[1].a[2] = BaseRefOf(classes, c)
                 /\ Range(ChildNames(t.a[2])) = {<<x, "">> : x \in Range(classes[c].children)}
                 /\ Len(ChildNames(t.a[2])) = Len(classes[c].children)

\* C8: enum-augmented total shape.  A class is written with an enumeration
\* declaration exactly when it owns an enum member; the declaration has one
\* member per attached EnumValue, in ascending order of the literal values;
\* the total type is then the union of the enum reference and the
\* parenthesised non-enum total shape, and otherwise the non-enum total shape.
C8_EnumAugmentedTotalShape ==
  Resolved =>
    \A i \in DOMAIN out :
      out[i].d = "type" =>
        LET c == out[i].owner
            es == DeclsOf(c, "enum")
            owned == classes[c].enums
        IN  /\ (Len(es) = 1) <=> (Len(owned) >= 1)
            /\ Len(es) <= 1
            /\ Len(es) = 1 =>
                 /\ Len(es[1].ms) = Len(owned)
                 /\ \A e \in Range(owned) :
                      Count(KeysOf(es[1].ms), e.id) = Count([j \in DOMAIN owned |-> owned[j].id], e.id)
                 /\ \A j, k \in DOMAIN es[1].ms :
                      j < k => StrRank(es[1].ms[j].a[1].n[1]) <= StrRank(es[1].ms[k].a[1].n[1])
                 /\ out[i].t.k = "union"
                 /\ Len(out[i].t.a) = 2
                 /\ out[i].t.a[1] = Ref(<<c, "Enum">>)
                 /\ out[i].t.a[2].k = "paren"
                 /\ out[i].t.a[2].a = <<nonEnumType(variant, classes, c)>>
            /\ Len(es) = 0 => out[i].t = nonEnumType(variant, classes, c)

KindsOf(decls) == [i \in DOMAIN decls |-> decls[i].d]

OwnedBy(c) == SelectSeq(out, LAMBDA x : x.owner = c)

\* C9: the declarations of a class.  toNode of a regular class returns an
\* optional enum declaration, then one base type declaration, then one
\* exported total type declaration, and nothing else; toNode of a Builtin
\* returns exactly one declaration.  The declarations written for a class are
\* the ones of one toNode call.
C9_DeclarationsPerClass ==
  /\ Resolved =>
       \A c \in DOMAIN classes :
         LET ds == OwnedBy(c)
         IN  (ds # <<>> \/ pc = "done") =>
               IF classes[c].builtin THEN Len(ds) = 1
               ELSE /\ KindsOf(ds) \in {<<"base", "type">>, <<"enum", "base", "type">>}
                    /\ ds[Len(ds)].exported
                    /\ ds[Len(ds)].name = <<c, "">>
                    /\ \A i \in DOMAIN ds : ds[i].owner = c
  /\ pc = "emit" =>
       \A c \in DOMAIN classes :
         LET r == toNode(variant, classes, c, skipDeprecated)
         IN  r.ok => IF classes[c].builtin THEN Len(r.decls) = 1
                     ELSE KindsOf(r.decls) \in {<<"base", "type">>, <<"enum", "base", "type">>}

\* a finished run that wrote three declarations for one class, two for
\* another and one for a Builtin
C9_Witness ==
  /\ pc = "done"
  /\ \E c, d \in RegularIds(classes) :
       /\ Len(OwnedBy(c)) = 3
       /\ Len(OwnedBy(d)) = 2
  /\ Len(OwnedBy("Text")) = 1

\* the written declarations without the header
Written == SelectSeq(out, LAMBDA x : x.d # "header")

\* a comes no later than b in the emission order
NoLaterThan(m, a, b) ==
  IF m[a].builtin /\ m[b].builtin THEN StrRank(HumanName(a)) <= StrRank(HumanName(b))
  ELSE IF m[a].builtin THEN TRUE
  ELSE IF m[b].builtin THEN FALSE
  ELSE \/ StrRank(HumanName(a)) < StrRank(HumanName(b))
       \/ (StrRank(HumanName(a)) = StrRank(HumanName(b)) /\ StrRank(a) <= StrRank(b))

\* C10: emission order.  In the declarations written by a run the Builtins
\* come before the regular classes, and within each group the classes are in
\* ascending order of human readable name, ties broken by identifier.
C10_EmissionOrder ==
  Resolved =>
    \A i, j \in DOMAIN Written :
      i < j => NoLaterThan(classes, Written[i].owner, Written[j].owner)

----------------------------------------------------------------------------
(* Determinism and order of the input.                                     *)

\* C11: determinism.  A second run of the whole pipeline on the same sequence
\* of graph members, in the same process (so with the member objects and the
\* module-level Builtin objects as the first run left them), ends the way the
\* first run ended and has written the same declarations in the same order.
C11_Determinism ==
  (run = 2 /\ pc \in {"done", "aborted"}) =>
    /\ pc = first.pc
    /\ err = first.err
    /\ out = first.out

\* a second run that wrote declarations although the first run left children
\* on a Builtin and a merged item in the input
C11_Witness ==
  /\ run = 2
  /\ pc = "done"
  /\ Len(out) > 1
  /\ \E b \in DOMAIN builtins : builtins[b].children # <<>>
  /\ \E i \in DOMAIN members : members[i].id = "p" /\ Len(members[i].domainIncludes) = 2

\* main as a whole, from the graph members to what has been written when it
\* returns or throws
RunPipeline(v, skip, ms) ==
  LET its == group(ms, [items |-> <<>>, log |-> <<>>]).items
      c == ProcessClasses(v, its)
      r == ResolveAll(v, its)
  IN  IF \E i \in DOMAIN its : TypesMissing(its[i]) THEN <<>>
      ELSE IF ~c.ok \/ AfterClasses(v, its).pc = "aborted" \/ ~r.ok THEN <<>>
      ELSE EmitAll(v, r.m, EmitOrder(v, r.m, ForwardDeclareClasses(its).o), skip,
                   <<Header>>).out

Reverse(s) == [i \in DOMAIN s |-> s[Len(s) + 1 - i]]

\* the same member with the values of its multi-valued fields in reverse order
RECURSIVE ReverseValues(_)
ReverseValues(ms) ==
  [i \in DOMAIN ms |->
     [ms[i] EXCEPT !.types = Reverse(@), !.subClassOf = Reverse(@),
                   !.domainIncludes = Reverse(@), !.rangeIncludes = Reverse(@),
                   !.graph = ReverseValues(@)]]

\* C12: order independence of emission.  What a finished run has written is
\* what the pipeline writes for every permutation of the graph members and
\* for the members with their subclass-of, domain, range and type values in
\* reverse order.
C12_OrderIndependence ==
  (pc = "done" /\ run = 1) =>
    /\ \A q \in Perms(members) : RunPipeline(variant, skipDeprecated, q) = out
    /\ RunPipeline(variant, skipDeprecated, ReverseValues(members)) = out

----------------------------------------------------------------------------
(* Merging the declarations of a subject.                                  *)

\* the members group stores or merges, at any depth, in the order of the walk
RECURSIVE Retained(_)
Retained(ms) ==
  IF ms = <<>> THEN <<>>
  ELSE (IF "graph" \in Head(ms).other THEN Retained(Head(ms).graph)
        ELSE IF Skipped(Head(ms)) THEN <<>>
        ELSE <<Head(ms)>>)
       \o Retained(Tail(ms))

Grouped(ms) == group(ms, [items |-> <<>>, log |-> <<>>])

\* the values of the merged field are the distinct values supplied, once each
IsUnionOf(merged, supplied) ==
  /\ Range(merged) = UNION {Range(supplied[i]) : i \in DOMAIN supplied}
  /\ Len(merged) = Cardinality(Range(merged))

DeclarationsOf(decls, id) == SelectSeq(decls, LAMBDA d : d.id = id)

\* C13: merging is a set union on the multi-valued fields.  For every order
\* of the declarations group retains, the merged item of a subject has in
\* domainIncludes, rangeIncludes, subClassOf and '@type' exactly the distinct
\* identifiers that the declarations of the subject supply, each once.
C13_MergeIsSetUnion ==
  (pc = "group" /\ run = 1) =>
    \A q \in Perms(Retained(members)) :
      \A it \in Range(Grouped(q).items) :
        LET ds == DeclarationsOf(q, it.id)
        IN  /\ IsUnionOf(it.domainIncludes, [i \in DOMAIN ds |-> ds[i].domainIncludes])
            /\ IsUnionOf(it.rangeIncludes, [i \in DOMAIN ds |-> ds[i].rangeIncludes])
            /\ IsUnionOf(it.subClassOf, [i \in DOMAIN ds |-> ds[i].subClassOf])
            /\ IsUnionOf(it.types, [i \in DOMAIN ds |-> ds[i].types])

\* the item group has stored for the subject, after the members ms
StoredFor(ms, id) ==
  LET its == Grouped(ms).items
  IN  its[CHOOSE i \in DOMAIN its : its[i].id = id]

IsConflict(entry) == entry.kind = "twoComments"

Conflicts(ms) == Len(SelectSeq(Grouped(ms).log, IsConflict))

\* C14: singular-field merge.  Whenever group merges a member into the item
\* stored for its subject, the item's comment (label) becomes the member's
\* when the member supplies one and stays otherwise, and the merge logs one
\* conflict diagnostic for each of the two fields that both the stored item
\* and the member supply, and no other.
C14_SingularFieldMerge ==
  (pc = "group" /\ run = 1) =>
    LET q == Retained(members)
    IN  \A k \in DOMAIN q :
          LET before == SubSeq(q, 1, k - 1)
              upto == SubSeq(q, 1, k)
              member == q[k]
          IN  (\E j \in 1..(k - 1) : q[j].id = member.id) =>
                LET old == StoredFor(before, member.id)
                    new == StoredFor(upto, member.id)
                IN  /\ new.comment = IF member.comment # <<>> THEN member.comment
                                     ELSE old.comment
                    /\ new.label = IF member.label # <<>> THEN member.label
                                   ELSE old.label
                    /\ Conflicts(upto) - Conflicts(before) =
                         (IF member.comment # <<>> /\ old.comment # <<>> THEN 1 ELSE 0)
                         + (IF member.label # <<>> /\ old.label # <<>> THEN 1 ELSE 0)

----------------------------------------------------------------------------
(* Flattening and filtering.                                               *)

\* the members that hold no '@graph', at any depth
RECURSIVE Leaves(_)
Leaves(ms) ==
  IF ms = <<>> THEN <<>>
  ELSE (IF "graph" \in Head(ms).other THEN Leaves(Head(ms).graph) ELSE <<Head(ms)>>)
       \o Leaves(Tail(ms))

\* the member carries provenance only, or is the meta test comment
ToBeDropped(member) ==
  \/ member.other \cap {"source", "closeMatch", "softwareVersion"} # {} /\ member.types = <<>>
  \/ member.id = MetaId

IdsOf(its) == {its[i].id : i \in DOMAIN its}

\* its is a flat map of the members ms
IsFlatMapOf(its, ms) ==
  /\ \A i, j \in DOMAIN its : its[i].id = its[j].id => i = j
  /\ \A i \in DOMAIN its : "graph" \notin its[i].other
  /\ IdsOf(its) = {m.id : m \in {x \in Range(Leaves(ms)) : ~ToBeDropped(x)}}
  /\ \A m \in Range(Leaves(ms)) : (m.types # <<>> /\ m.id # MetaId) => m.id \in IdsOf(its)

----------------------------------------------------------------------------
(* The input.                                                              *)

\* C16: the input is never mutated.  No step of the pipeline changes a field
\* of a graph member that was supplied as input.
C16_InputNeverMutated == [][members' = members]_vars

----------------------------------------------------------------------------
(* Properties.                                                             *)

\* the properties of class c that come from the property topic id
AttachedTo(m, c, id) == SelectSeq(m[c].props, LAMBDA prop : prop.key = id)

\* C17: property attachment.  Once the property stage has returned, every
\* property topic has exactly one Property on each class its domain-includes
\* names and none on any other class, and each of these carries the range
\* list of the topic, one entry per range-includes reference, and the first
\* comment of the topic.
C17_PropertyAttachment ==
  PropertiesDone =>
    \A i \in DOMAIN items :
      IsPropertyItem(items[i]) =>
        \A c \in DOMAIN classes :
          LET ps == AttachedTo(classes, c, items[i].id)
              cs == GetComments(items[i])
          IN  /\ Len(ps) = IF c \in Range(items[i].domainIncludes) THEN 1 ELSE 0
              /\ \A k \in DOMAIN ps :
                   /\ ps[k].types = items[i].rangeIncludes
                   /\ ps[k].comment = IF cs = <<>> THEN <<>> ELSE <<cs[1]>>

\* the fields of every base shape written, with the class they belong to
WrittenFields ==
  UNION {{[owner |-> out[i].owner, pos |-> k, field |-> LiteralOf(out[i].t)[k]] :
            k \in DOMAIN LiteralOf(out[i].t)} :
         i \in {j \in DOMAIN out : out[j].d = "base"}}

\* the key is a reserved structural marker: it starts with '@'
IsReservedKey(key) == key = "@type"

IsScalar(t) == t.k \in {"never", "ref", "string"} \/ (t.k = "union" /\ \A i \in DOMAIN t.a : t.a[i].k = "ref")

\* C18: multiplicity policy.  Every field written whose key does not start
\* with '@' is optional and has the type (T | T[]) for a scalar type T; every
\* field whose key starts with '@' is required and has a scalar type alone,
\* never an array.
C18_MultiplicityPolicy ==
  Resolved =>
    \A w \in WrittenFields :
      LET f == w.field
      IN  IF IsReservedKey(f.n[1])
          THEN /\ f.k = "property"
               /\ Len(f.a) = 1
               /\ IsScalar(f.a[1])
          ELSE /\ f.k = "property?"
               /\ Len(f.a) = 1
               /\ f.a[1].k = "union"
               /\ Len(f.a[1].a) = 2
               /\ IsScalar(f.a[1].a[1])
               /\ f.a[1].a[2] = [k |-> "array", n |-> NoName, a |-> <<f.a[1].a[1]>>, c |-> <<>>]

\* a class has been written with its required '@type' field and an optional
\* field
C18_Witness ==
  /\ pc = "done"
  /\ \E v, w \in WrittenFields :
       /\ v.owner = w.owner
       /\ IsReservedKey(v.field.n[1]) /\ v.field.k = "property"
       /\ ~IsReservedKey(w.field.n[1]) /\ w.field.k = "property?"

\* the properties of c that toNode writes, in the order it writes them
KeptProps(m, c, skip) == SelectSeq(m[c].props, LAMBDA prop : ~(skip /\ prop.deprecated))

\* the scalar part of a written value type
ScalarPart(f) == IF f.k = "property?" THEN f.a[1].a[1] ELSE f.a[1]

\* C19: scalar type of a property.  The scalar type of every property field
\* written is 'never' exactly when the property's range list is empty, the
\* reference to the one range class when the list has one entry, and the
\* union of the references to the range classes, one per entry and in order,
\* when it has two or more.
C19_ScalarType ==
  Resolved =>
    \A w \in WrittenFields :
      ~IsReservedKey(w.field.n[1]) =>
        LET kept == KeptProps(classes, w.owner, skipDeprecated)
            prop == kept[w.pos - (IF LeafInGraph(classes, w.owner) THEN 1 ELSE 0)]
            refs == [i \in DOMAIN prop.types |-> Ref(<<prop.types[i], "">>)]
            t == ScalarPart(w.field)
        IN  /\ prop.key = w.field.n[1]
            /\ (t.k = "never") <=> (Len(prop.types) = 0)
            /\ Len(prop.types) = 1 => t = refs[1]
            /\ Len(prop.types) >= 2 => (t.k = "union" /\ t.a = refs)

\* one class has been written with a property without range next to a
\* property with one range class
C19_Witness ==
  /\ pc = "done"
  /\ \E u, v \in WrittenFields :
       /\ u.owner = v.owner
       /\ ScalarPart(u.field).k = "never"
       /\ ScalarPart(v.field).k = "ref"

----------------------------------------------------------------------------
(* Enum members.                                                           *)

\* the enum values of class c that come from the topic id
MembersOf(m, c, id) == SelectSeq(m[c].enums, LAMBDA e : e.id = id)

\* C20: enum ownership.  Once the enum stage has returned, a topic is an enum
\* value of exactly one class, the one named by the first of its type tags
\* that is not Class, Property or DataType, when it has such a tag, and of no
\* class otherwise; and the enum stage throws only when that owner tag of some
\* topic is not in the ClassMap: the well-known tags are never looked up.
C20_EnumOwnership ==
  /\ Resolved =>
       \A i \in DOMAIN items :
         \A c \in DOMAIN classes :
           Len(MembersOf(classes, c, items[i].id)) =
             IF OwnerRefs(items[i]) = <<c>> THEN 1 ELSE 0
  /\ (pc = "aborted" /\ err = "enum") =>
       \E i \in DOMAIN items :
         /\ OwnerRefs(items[i]) # <<>>
         /\ OwnerRefs(items[i])[1] \notin DOMAIN classes

----------------------------------------------------------------------------
(* Enum member comments.                                                   *)

\* the enum members written for the topic id
WrittenMembers(id) ==
  UNION {{out[i].ms[k] : k \in {j \in DOMAIN out[i].ms : out[i].ms[j].a[1].n[1] = id}} :
         i \in {j \in DOMAIN out : out[j].d = "enum"}}

\* the usable comments of the declarations of the topic id
SuppliedComments(id) ==
  UNION {Range(GetComments(items[i])) : i \in {j \in DOMAIN items : items[j].id = id}}

\* C21: an attached enum member carries its comment.  Every enum member in
\* the registry, and every enum member written, whose topic supplies a usable
\* comment (plain or in the preferred language) has one of the topic's
\* comments as its comment.
C21_EnumMemberComment ==
  Resolved =>
    /\ \A c \in DOMAIN classes :
         \A k \in DOMAIN classes[c].enums :
           LET e == classes[c].enums[k]
           IN  SuppliedComments(e.id) # {} =>
                 (e.comment # <<>> /\ e.comment[1] \in SuppliedComments(e.id))
    /\ \A i \in DOMAIN items :
         \A e \in WrittenMembers(items[i].id) :
           SuppliedComments(items[i].id) # {} =>
             (e.c # <<>> /\ e.c[1] \in SuppliedComments(items[i].id))

----------------------------------------------------------------------------
(* Deprecation.                                                            *)

\* the topics without the superseded-by facts of the class topics
WithoutSupersededBy(its) ==
  [i \in DOMAIN its |-> IF IsClass(its[i]) THEN [its[i] EXCEPT !.supersededBy = <<>>]
                        ELSE its[i]]

\* the registry with every supersession list emptied
WithoutSupersession(m) == [c \in DOMAIN m |-> [m[c] EXCEPT !.supersededBy = <<>>]]

\* the notice of a written comment names exactly the classes of ids, in order
NoticeNames(c, ids) == c.dep = [i \in DOMAIN ids |-> className(ids[i])]

\* C22: deprecation only annotates.  The total type written for a class has
\* the class's comment as text, followed by a notice exactly when the
\* supersession list of the class is not empty, and the notice names every
\* class of the list; and the superseded-by edges change nothing else: the
\* resolved registry is, but for the supersession lists, the registry that
\* the same topics without their superseded-by facts resolve to.
C22_DeprecationOnlyAnnotates ==
  Resolved =>
    /\ \A i \in DOMAIN out :
         out[i].d = "type" =>
           /\ out[i].c.text = classes[out[i].owner].comment
           /\ NoticeNames(out[i].c, classes[out[i].owner].supersededBy)
           /\ (out[i].c.dep # <<>>) = (Len(classes[out[i].owner].supersededBy) > 0)
    /\ (pc = "header" /\ run = 1) =>
         LET r == ResolveAll(variant, WithoutSupersededBy(items))
         IN  r.ok /\ r.m = WithoutSupersession(classes)

C22_Witness ==
  /\ pc = "done"
  /\ Len(classes["A"].supersededBy) = 2
  /\ \E i \in DOMAIN out :
       /\ out[i].d = "type" /\ out[i].owner = "A"
       /\ out[i].c.text = <<"cA">>
       /\ out[i].c.dep = <<className("B"), className("C")>>
  /\ classes["A"].children = <<"B">>

----------------------------------------------------------------------------
(* Builtins.                                                               *)

\* C23: builtins are independent of the topics.  Once ProcessClasses has
\* returned, every seeded builtin identifier is mapped to a Builtin node, and
\* what is written for Text is the single alias to the string primitive.
C23_BuiltinsIndependentOfTopics ==
  /\ ClassesBuilt =>
       \A i \in DOMAIN BuiltinIds :
         BuiltinIds[i] \in DOMAIN classes /\ classes[BuiltinIds[i]].builtin
  /\ pc = "done" =>
       /\ Len(OwnedBy("Text")) = 1
       /\ OwnedBy("Text")[1].d = "alias"
       /\ OwnedBy("Text")[1].t = createTypeReferenceNode(<<"string", "">>)


\* the Builtin nodes a state holds: the module-level objects and the ones in
\* the ClassMap
BuiltinNodes ==
  {builtins[b] : b \in DOMAIN builtins}
  \cup {classes[c] : c \in {x \in DOMAIN classes : classes[x].builtin}}

\* C24: a Builtin has no parents and no children, in every reachable state.
C24_BuiltinHasNoEdges ==
  \A n \in BuiltinNodes : n.parents = <<>> /\ n.children = <<>>

----------------------------------------------------------------------------
(* Acyclicity.                                                             *)

\* no class is its own ancestor
Acyclic(m) == \A c \in DOMAIN m : c \notin Ancestors(m, Range(m[c].parents))

\* C25: the parent/child relation is acyclic.  Every registry that
\* ProcessClasses has returned is acyclic, the builtin-ancestor walk returns
\* on every class of it, and no run ends in an unbounded recursion.
C25_AcyclicRegistry ==
  /\ ClassesBuilt =>
       /\ Acyclic(classes)
       /\ \A c \in RegularIds(classes) : aliasesBuiltin(classes, c) # "O"
  /\ err # "overflow"

----------------------------------------------------------------------------
(* Class names (ts/util/names.ts).                                         *)

Names == UNION {[1..k -> Alphabet] : k \in 0..MaxNameLen}

Subjects == {UrlNode(n) : n \in Names} \cup {UrlNodeNoName, BlankNode}

InitNames ==
  /\ variant = "ts"
  /\ members = <<>>
  /\ skipDeprecated = FALSE
  /\ items = <<>>
  /\ classes = EmptyMap
  /\ order = <<>>
  /\ pc = "name"
  /\ idx = 1
  /\ out = <<>>
  /\ err = "none"
  /\ log = <<>>
  /\ builtins = FreshBuiltins
  /\ run = 1
  /\ first = [pc |-> "none", err |-> "none", out |-> <<>>]
  /\ subject \in Subjects
  /\ named = <<>>
  /\ sorts = NoSorts

\* one call of toClassName
ToClassName ==
  /\ pc = "name"
  /\ LET r == toClassName(subject)
     IN  /\ pc' = IF r.ok THEN "named" ELSE "aborted"
         /\ err' = IF r.ok THEN "none" ELSE "name"
         /\ named' = r.name
  /\ UNCHANGED <<sorts, subject, builtins, run, first, variant, skipDeprecated, members,
                 items, classes, order, idx, out, log>>

NextNames == ToClassName

SpecNames == InitNames /\ [][NextNames]_vars

IsDigit(ch) == ch = "3"

IsIdentifierChar(ch) == ch \in {"P", "3", "_"}

IsLegalIdentifier(n) ==
  /\ n # <<>>
  /\ \A i \in DOMAIN n : IsIdentifierChar(n[i])
  /\ ~IsDigit(n[1])

\* every character outside [A-Za-z0-9_] replaced by '_', and '_' put in front
\* of a leading digit
Sanitized(n) ==
  LET r == [i \in DOMAIN n |-> IF IsIdentifierChar(n[i]) THEN n[i] ELSE "_"]
  IN  IF r # <<>> /\ IsDigit(r[1]) THEN <<"_">> \o r ELSE r

\* C26: toClassName returns a legal identifier.  Called on a URL node with a
\* name, it returns the name unchanged when the name is a legal identifier and
\* the sanitised name otherwise; called on a blank node, it throws.
C26_ToClassNameIsLegalIdentifier ==
  /\ (pc = "named" /\ subject.type = "UrlNode") =>
       /\ named = (IF IsLegalIdentifier(subject.name) THEN subject.name
                   ELSE Sanitized(subject.name))
       /\ (subject.name # <<>> => IsLegalIdentifier(named))
  /\ (pc # "name" /\ subject.type = "BlankNode") => (pc = "aborted" /\ err = "name")

----------------------------------------------------------------------------
(* Sort (ts/class.ts) called on the nodes of a registry.                   *)

\* Text2 is a second node whose human-readable name is Text, as A2 is a second
\* node whose human-readable name is A
SortBuiltinIds == {"Text", "Text2", "Number"}

SortClassIds == {"A", "A2", "B"}

SortRegistry ==
  [id \in SortBuiltinIds \cup SortClassIds |->
     IF id \in SortBuiltinIds THEN NewBuiltin ELSE NewClass]

InitSort ==
  /\ variant = "ts"
  /\ members = <<>>
  /\ skipDeprecated = FALSE
  /\ items = <<>>
  /\ classes = SortRegistry
  /\ order = <<>>
  /\ pc = "sort"
  /\ idx = 1
  /\ out = <<>>
  /\ err = "none"
  /\ log = <<>>
  /\ builtins = FreshBuiltins
  /\ run = 1
  /\ first = [pc |-> "none", err |-> "none", out |-> <<>>]
  /\ subject = NoSubject
  /\ named = <<>>
  /\ sorts \in {[NoSorts EXCEPT !.a = x, !.b = y, !.c = z] :
                  x \in DOMAIN SortRegistry, y \in DOMAIN SortRegistry,
                  z \in DOMAIN SortRegistry}

\* Sort called on the pairs of three nodes
SortNodes ==
  /\ pc = "sort"
  /\ pc' = "sorted"
  /\ sorts' = [sorts EXCEPT !.ab = Sort(classes, sorts.a, sorts.b),
                            !.ba = Sort(classes, sorts.b, sorts.a),
                            !.bc = Sort(classes, sorts.b, sorts.c),
                            !.ac = Sort(classes, sorts.a, sorts.c)]
  /\ UNCHANGED <<subject, named, builtins, run, first, variant, skipDeprecated, members,
                 items, classes, order, idx, out, err, log>>

NextSort == SortNodes

SpecSort == InitSort /\ [][NextSort]_vars

Sign(n) == IF n < 0 THEN -1 ELSE IF n > 0 THEN 1 ELSE 0

----------------------------------------------------------------------------
(* Duplicate comments.                                                     *)

\* the class topics that supply more than one usable comment
Commented == {i \in DOMAIN items : IsClass(items[i]) /\ Len(GetComments(items[i])) > 1}

LastComment(item) == <<GetComments(item)[Len(GetComments(item))]>>

\* C28: duplicate comments on a class are advisory, and the last one wins.
\* A class topic with several comments does not stop the run; once the class
\* stage has returned, a diagnostic for the class has been logged and the
\* class holds the comment observed last, and that is the comment written
\* with its total type.
C28_DuplicateCommentLastWins ==
  /\ members \in CommentedInputs => pc # "aborted"
  /\ ClassesBuilt =>
       \A i \in Commented :
         /\ LogEntry("duplicateComment", items[i].id) \in Range(log)
         /\ classes[items[i].id].comment = LastComment(items[i])
         /\ \A k \in DOMAIN out :
              (out[k].d = "type" /\ out[k].owner = items[i].id) =>
                out[k].c.text = LastComment(items[i])

----------------------------------------------------------------------------
(* Emission is read-only.                                                  *)

\* the same entries, each as many times, in whatever order
SameEntries(a, b) ==
  \A x \in Range(a) \cup Range(b) : Count(a, x) = Count(b, x)

\* no list of a node of m has gained or lost an entry in n
SameGraph(m, n) ==
  /\ DOMAIN m = DOMAIN n
  /\ \A c \in DOMAIN m :
       /\ SameEntries(m[c].parents, n[c].parents)
       /\ SameEntries(m[c].children, n[c].children)
       /\ SameEntries(m[c].props, n[c].props)
       /\ SameEntries(m[c].enums, n[c].enums)
       /\ SameEntries(m[c].supersededBy, n[c].supersededBy)
       /\ isLeaf(m, c) = isLeaf(n, c)

\* toNode of c, called on the registry m
DeclsIn(m, c) == toNode(variant, m, c, skipDeprecated)

\* one call of toNode on any class c leaves the graph as it is, and a later
\* call on any class d, c included, returns what that call returns on the
\* registry as it was (which needs no look when the call on c changed nothing)
ReadOnlyCalls ==
  LET base == [d \in DOMAIN classes |-> DeclsIn(classes, d)]
  IN  \A c \in DOMAIN classes :
        base[c].ok =>
          /\ SameGraph(classes, base[c].m)
          /\ \/ base[c].m = classes
             \/ \A d \in DOMAIN classes :
                  base[d].ok =>
                    LET q == DeclsIn(base[c].m, d)
                    IN  q.ok /\ q.decls = base[d].decls

\* C29: emission is read-only and repeatable.  On a resolved registry toNode
\* of any class adds and removes no parent, child, property, enum member or
\* supersession entry and changes no isLeaf value, a second call returns the
\* declarations of the first, and the declarations of a class do not depend
\* on the calls made before on other classes; the emission loop as a whole
\* leaves every list with the entries it had; and after the loop toNode of a
\* class still returns the declarations that were written for it.
C29_EmissionIsReadOnly ==
  /\ [](pc = "emit" => ReadOnlyCalls)
  /\ [](pc = "done" => \A c \in DOMAIN classes : DeclsIn(classes, c).decls = OwnedBy(c))
  /\ [][pc = "emit" => SameGraph(classes, classes')]_vars

\* the emission has reordered a list of a class and written its declarations
C29_Witness ==
  /\ pc = "done"
  /\ \E c \in RegularIds(classes) :
       /\ Len(classes[c].children) = 2
       /\ classes[c].children # ResolveAll(variant, items).m[c].children
       /\ Len(OwnedBy(c)) >= 2

====
